---------------------------- MODULE Spec2Model ----------------------------
(***************************************************************************)
(* The algebra practice module of Kids Code & Math Academy                  *)
(* (client/src/components/algebra/AlgebraModule.tsx): the session state of  *)
(* the AlgebraModule component and its four event handlers.                 *)
(*                                                                         *)
(* Texts are sequences of one-character strings.  parseInt and the value   *)
(* sanitization of <input type="number"> are computed character by         *)
(* character.  generateAlgebraProblem is imported from                     *)
(* @/lib/algebraProblems; its results are modelled from the specification  *)
(* of the Problem Generator (sections 3 and 4.1).                           *)
(***************************************************************************)
EXTENDS Integers, Sequences, FiniteSets

VARIABLES
    currentProblem,   \* useState(generateAlgebraProblem(1))
    userAnswer,       \* useState('')
    showFeedback,     \* useState(false)
    isCorrect,        \* useState(false)
    showHints,        \* useState(false)
    toast,            \* title of the toast the last handler raised, or NoToast
    lastOp            \* the handler that ran last

vars == <<currentProblem, userAnswer, showFeedback, isCorrect, showHints,
          toast, lastOp>>

---------------------------------------------------------------------------
(* Bounds of the model *)

\* Longest text typed freely over Alphabet.
MaxLen == 3

\* Characters the free texts are built from: a digit, the sign, the decimal
\* point, the exponent letter and a letter that belongs to no number.
Alphabet == {"3", "-", ".", "e", "a"}

---------------------------------------------------------------------------
(* Characters and texts *)

Digit == {"0", "1", "2", "3", "4", "5", "6", "7", "8", "9"}

DigitVal == [c \in Digit |->
               CASE c = "0" -> 0 [] c = "1" -> 1 [] c = "2" -> 2 [] c = "3" -> 3
                 [] c = "4" -> 4 [] c = "5" -> 5 [] c = "6" -> 6 [] c = "7" -> 7
                 [] c = "8" -> 8 [] c = "9" -> 9]

DigitChar == [d \in 0..9 |-> CHOOSE c \in Digit : DigitVal[c] = d]

WhiteSpace == {" "}

Radix == 10

RECURSIVE SkipWhiteSpace(_)
SkipWhiteSpace(s) ==
    IF s # <<>> /\ Head(s) \in WhiteSpace THEN SkipWhiteSpace(Tail(s)) ELSE s

RECURSIVE DigitPrefixLen(_)
DigitPrefixLen(s) ==
    IF s # <<>> /\ Head(s) \in Digit THEN 1 + DigitPrefixLen(Tail(s)) ELSE 0

RECURSIVE DigitPrefixValue(_, _)
DigitPrefixValue(s, acc) ==
    IF s # <<>> /\ Head(s) \in Digit
    THEN DigitPrefixValue(Tail(s), Radix * acc + DigitVal[Head(s)])
    ELSE acc

DropFirst(s, n) == SubSeq(s, n + 1, Len(s))

\* parseInt(text, 10): leading white space is skipped, one sign is taken, then
\* the longest run of digits; whatever follows is ignored.  No digit: NaN.
parseInt(s) ==
    LET t   == SkipWhiteSpace(s)
        neg == t # <<>> /\ Head(t) = "-"
        u   == IF t # <<>> /\ Head(t) \in {"-", "+"} THEN Tail(t) ELSE t
    IN  IF DigitPrefixLen(u) = 0
        THEN [isNaN |-> TRUE, value |-> 0]
        ELSE [isNaN |-> FALSE,
              value |-> IF neg THEN 0 - DigitPrefixValue(u, 0)
                               ELSE DigitPrefixValue(u, 0)]

\* A valid floating-point number of HTML: an optional "-", digits and/or a
\* fraction ("." and at least one digit), an optional exponent.
ValidFloatingPoint(s) ==
    LET a    == IF s # <<>> /\ Head(s) = "-" THEN Tail(s) ELSE s
        k1   == DigitPrefixLen(a)
        b    == DropFirst(a, k1)
        frac == b # <<>> /\ Head(b) = "."
        k2   == IF frac THEN DigitPrefixLen(Tail(b)) ELSE 0
        c    == IF frac THEN DropFirst(Tail(b), k2) ELSE b
        expo == c # <<>> /\ Head(c) \in {"e", "E"}
        d    == IF expo /\ Tail(c) # <<>> /\ Head(Tail(c)) \in {"-", "+"}
                THEN Tail(Tail(c)) ELSE IF expo THEN Tail(c) ELSE c
        k3   == DigitPrefixLen(d)
    IN  /\ (frac => k2 >= 1)
        /\ (k1 >= 1 \/ frac)
        /\ IF expo THEN k3 >= 1 /\ k3 = Len(d) ELSE c = <<>>

\* The value an <input type="number"> reports for a typed text: the text
\* itself when it is a valid floating-point number, the empty text otherwise.
NumberInputValue(typed) == IF ValidFloatingPoint(typed) THEN typed ELSE <<>>


\* Number to text, as String(n) writes it: a "-" for a negative number, then
\* the decimal digits with no leading zero.
RECURSIVE NatToStr(_)
NatToStr(n) ==
    IF n < Radix THEN <<DigitChar[n]>>
    ELSE Append(NatToStr(n \div Radix), DigitChar[n % Radix])

IntToStr(n) == IF n < 0 THEN <<"-">> \o NatToStr(0 - n) ELSE NatToStr(n)

\* An optionally signed decimal integer and nothing else.
IsDecimalInteger(s) ==
    LET u == IF s # <<>> /\ Head(s) \in {"-", "+"} THEN Tail(s) ELSE s
    IN  Len(u) >= 1 /\ DigitPrefixLen(u) = Len(u)

---------------------------------------------------------------------------
(* The problem generator (@/lib/algebraProblems) *)

\* Level 1 draws its operands from 1..10.
MaxOperand == 10

Operators == {"addition", "subtraction"}

OperandRange(level) == 1..(MaxOperand * level)

\* The value of the missing term of  a operator b = ?
Solve(a, op, b) == IF op = "addition" THEN a + b ELSE a - b

\* Whether the problem's equation is true with its answer substituted.
EquationHolds(p) ==
    IF p.operator = "addition"
    THEN p.operands[1] + p.operands[2] = p.answer
    ELSE p.operands[1] - p.operands[2] = p.answer

\* The problems generateAlgebraProblem(level) can return: the generator never
\* returns a problem whose answer is negative.
generateAlgebraProblem(level) ==
    { p \in { [operands |-> <<a, b>>, operator |-> op,
               answer |-> Solve(a, op, b)] :
                 a \in OperandRange(level), b \in OperandRange(level),
                 op \in Operators } :
        p.answer >= 0 }

Level1Problems == generateAlgebraProblem(1)

---------------------------------------------------------------------------
(* What the child can type *)

RECURSIVE TextsUpTo(_)
TextsUpTo(n) ==
    IF n = 0 THEN {<<>>}
    ELSE LET S == TextsUpTo(n - 1)
         IN  S \cup { Append(s, c) : s \in {t \in S : Len(t) = n - 1},
                                     c \in Alphabet }

\* The decimal text of every integer from -1 to one past the largest answer.
DecimalTexts == { IntToStr(n) : n \in (0 - 1)..(2 * MaxOperand + 1) }

TypedTexts == TextsUpTo(MaxLen) \cup DecimalTexts

\* The values e.target.value can take.
InputValues == { NumberInputValue(t) : t \in TypedTexts }

---------------------------------------------------------------------------
(* Toast titles *)

NoToast       == "none"
MissingAnswer == "Don't forget to answer!"
NotANumber    == "That's not a number"
GreatJob      == "Great job!"
NotQuiteRight == "Not quite right"

---------------------------------------------------------------------------
(* The session *)

Session == [currentProblem |-> currentProblem, userAnswer |-> userAnswer,
            showFeedback |-> showFeedback, isCorrect |-> isCorrect,
            showHints |-> showHints]

\* Mutant: the input carries no disabled attribute.
InputDisabled_Never == FALSE

\* Mutant: the Check button is disabled whenever feedback shows.
CheckDisabled_WhenFeedback == showFeedback

\* disabled={showFeedback && isCorrect} of the input and of the Check button
InputDisabled == showFeedback /\ isCorrect

CheckDisabled == showFeedback /\ isCorrect

Init ==
    /\ currentProblem \in generateAlgebraProblem(1)
    /\ userAnswer = <<>>
    /\ showFeedback = FALSE
    /\ isCorrect = FALSE
    /\ showHints = FALSE
    /\ toast = NoToast
    /\ lastOp = "mount"

handleAnswerChange ==
    /\ ~InputDisabled
    /\ \E value \in InputValues : userAnswer' = value
    /\ toast' = NoToast
    /\ lastOp' = "handleAnswerChange"
    /\ UNCHANGED <<currentProblem, showFeedback, isCorrect, showHints>>

\* Mutant: the comparison is >= instead of ===.
checkAnswerOn_AtLeast(s) ==
    IF s.userAnswer = <<>>
    THEN [session |-> s, toast |-> MissingAnswer]
    ELSE LET parsedAnswer == parseInt(s.userAnswer)
         IN  IF parsedAnswer.isNaN
             THEN [session |-> s, toast |-> NotANumber]
             ELSE LET correct == parsedAnswer.value >= s.currentProblem.answer
                  IN  [session |-> [s EXCEPT !.isCorrect = correct,
                                             !.showFeedback = TRUE],
                       toast |-> IF correct THEN GreatJob ELSE NotQuiteRight]

\* Mutant: the validation of an empty answer is left out.
checkAnswerOn_NoEmptyCheck(s) ==
    LET parsedAnswer == parseInt(s.userAnswer)
    IN  IF parsedAnswer.isNaN
        THEN [session |-> s, toast |-> NotANumber]
        ELSE LET correct == parsedAnswer.value = s.currentProblem.answer
             IN  [session |-> [s EXCEPT !.isCorrect = correct,
                                        !.showFeedback = TRUE],
                  toast |-> IF correct THEN GreatJob ELSE NotQuiteRight]

\* Mutant: setIsCorrect and setShowFeedback run before the NaN validation.
checkAnswerOn_FeedbackBeforeNaN(s) ==
    IF s.userAnswer = <<>>
    THEN [session |-> s, toast |-> MissingAnswer]
    ELSE LET parsedAnswer == parseInt(s.userAnswer)
             correct == ~parsedAnswer.isNaN
                        /\ parsedAnswer.value = s.currentProblem.answer
             shown == [s EXCEPT !.isCorrect = correct, !.showFeedback = TRUE]
         IN  IF parsedAnswer.isNaN
             THEN [session |-> shown, toast |-> NotANumber]
             ELSE [session |-> shown,
                   toast |-> IF correct THEN GreatJob ELSE NotQuiteRight]

\* Mutant: setShowFeedback(!showFeedback) instead of setShowFeedback(true).
checkAnswerOn_Toggle(s) ==
    IF s.userAnswer = <<>>
    THEN [session |-> s, toast |-> MissingAnswer]
    ELSE LET parsedAnswer == parseInt(s.userAnswer)
         IN  IF parsedAnswer.isNaN
             THEN [session |-> s, toast |-> NotANumber]
             ELSE LET correct == parsedAnswer.value = s.currentProblem.answer
                  IN  [session |-> [s EXCEPT !.isCorrect = correct,
                                             !.showFeedback = ~s.showFeedback],
                       toast |-> IF correct THEN GreatJob ELSE NotQuiteRight]

\* The body of checkAnswer on a session s: the session it leaves and the
\* toast it raises.
checkAnswerOn(s) ==
    IF s.userAnswer = <<>>
    THEN [session |-> s, toast |-> MissingAnswer]
    ELSE LET parsedAnswer == parseInt(s.userAnswer)
         IN  IF parsedAnswer.isNaN
             THEN [session |-> s, toast |-> NotANumber]
             ELSE LET correct == parsedAnswer.value = s.currentProblem.answer
                  IN  [session |-> [s EXCEPT !.isCorrect = correct,
                                             !.showFeedback = TRUE],
                       toast |-> IF correct THEN GreatJob ELSE NotQuiteRight]

checkAnswer ==
    /\ ~CheckDisabled
    /\ LET r == checkAnswerOn(Session)
       IN  /\ currentProblem' = r.session.currentProblem
           /\ userAnswer' = r.session.userAnswer
           /\ showFeedback' = r.session.showFeedback
           /\ isCorrect' = r.session.isCorrect
           /\ showHints' = r.session.showHints
           /\ toast' = r.toast
    /\ lastOp' = "checkAnswer"

\* onClick={() => setShowHints(!showHints)}
toggleHints ==
    /\ showHints' = ~showHints
    /\ toast' = NoToast
    /\ lastOp' = "toggleHints"
    /\ UNCHANGED <<currentProblem, userAnswer, showFeedback, isCorrect>>

\* Mutant: setShowFeedback(false) is left out.
nextProblem_KeepsFeedback ==
    /\ showFeedback
    /\ currentProblem' \in generateAlgebraProblem(1)
    /\ userAnswer' = <<>>
    /\ showHints' = FALSE
    /\ toast' = NoToast
    /\ lastOp' = "nextProblem"
    /\ UNCHANGED <<isCorrect, showFeedback>>

\* Mutant: the next problem is asked for at level 2.
nextProblem_Level2 ==
    /\ showFeedback
    /\ currentProblem' \in generateAlgebraProblem(2)
    /\ userAnswer' = <<>>
    /\ showFeedback' = FALSE
    /\ showHints' = FALSE
    /\ toast' = NoToast
    /\ lastOp' = "nextProblem"
    /\ UNCHANGED isCorrect

\* onNextChallenge of AlgebraFeedback, which is rendered while showFeedback.
nextProblem ==
    /\ showFeedback
    /\ currentProblem' \in generateAlgebraProblem(1)
    /\ userAnswer' = <<>>
    /\ showFeedback' = FALSE
    /\ showHints' = FALSE
    /\ toast' = NoToast
    /\ lastOp' = "nextProblem"
    /\ UNCHANGED isCorrect

Next ==
    \/ handleAnswerChange
    \/ checkAnswer
    \/ toggleHints
    \/ nextProblem

Spec == Init /\ [][Next]_vars

TypeOK ==
    /\ currentProblem \in Level1Problems
    /\ userAnswer \in InputValues
    /\ showFeedback \in BOOLEAN /\ isCorrect \in BOOLEAN /\ showHints \in BOOLEAN
    /\ toast \in {NoToast, MissingAnswer, NotANumber, GreatJob, NotQuiteRight}
    /\ lastOp \in {"mount", "handleAnswerChange", "checkAnswer", "toggleHints",
                   "nextProblem"}

---------------------------------------------------------------------------
(* States of the session *)

Idle      == ~showFeedback /\ userAnswer = <<>>
Correct   == showFeedback /\ isCorrect
Incorrect == showFeedback /\ ~isCorrect

\* The integers whose decimal text can be typed, and their texts.
CheckedInts == { n \in (0 - Radix^MaxLen)..(Radix^MaxLen) : IntToStr(n) \in InputValues }

TextOf == [n \in CheckedInts |-> IntToStr(n)]

---------------------------------------------------------------------------
(* Properties *)

\* C1: after checkAnswer on the decimal text of an integer n, feedback is
\* visible and isCorrect is exactly (n = currentProblem.answer), with the
\* matching toast: true for the text of the answer, false for the text of
\* any other integer.
C1_VerdictMatchesAnswer ==
    \A n \in CheckedInts :
        (lastOp = "checkAnswer" /\ userAnswer = TextOf[n]) =>
            /\ showFeedback
            /\ isCorrect = (n = currentProblem.answer)
            /\ toast = IF n = currentProblem.answer THEN GreatJob
                                                    ELSE NotQuiteRight

\* C1 witness: the text of a two-digit answer was checked and found correct.
C1_Witness ==
    /\ lastOp = "checkAnswer"
    /\ currentProblem.answer >= Radix
    /\ userAnswer = IntToStr(currentProblem.answer)
    /\ Correct

\* C2: a checkAnswer step on an empty input raises the MissingAnswer toast
\* (never NotANumber, never a verdict) and leaves isCorrect and showFeedback
\* as they were.
C2_EmptyIsMissingAnswer ==
    [][ (lastOp' = "checkAnswer" /\ userAnswer = <<>>) =>
            (toast' = MissingAnswer /\ UNCHANGED <<isCorrect, showFeedback>>)
      ]_vars

\* C2 witness: an empty input was checked while earlier feedback was showing.
C2_Witness ==
    /\ lastOp = "checkAnswer"
    /\ userAnswer = <<>>
    /\ toast = MissingAnswer
    /\ Incorrect

\* C3 (as claimed): after checkAnswer on a non-empty text that is not an
\* optionally signed decimal integer, the outcome is NotANumber.
C3_NonIntegerIsNotANumber ==
    (lastOp = "checkAnswer" /\ userAnswer # <<>> /\ ~IsDecimalInteger(userAnswer))
        => toast = NotANumber

\* C4: in the Correct state the input and the Check button are disabled, and
\* every step other than nextProblem leaves the problem, the input text, the
\* verdict and the feedback visibility unchanged.
C4_CorrectIsTerminal ==
    [][ Correct =>
            /\ InputDisabled
            /\ CheckDisabled
            /\ (lastOp' # "nextProblem" =>
                    UNCHANGED <<currentProblem, userAnswer, isCorrect, showFeedback>>)
      ]_vars

\* C4 witness: the hints were toggled while the session was Correct.
C4_Witness == Correct /\ lastOp = "toggleHints" /\ showHints

\* C5: in the Incorrect state the input and the Check button are enabled,
\* every step other than nextProblem keeps currentProblem, and a checkAnswer
\* step on the text of the problem's answer leads to Correct.
C5_IncorrectPermitsRetry ==
    [][ Incorrect =>
            /\ ~InputDisabled
            /\ ~CheckDisabled
            /\ (lastOp' # "nextProblem" => currentProblem' = currentProblem)
            /\ ((lastOp' = "checkAnswer"
                    /\ userAnswer = IntToStr(currentProblem.answer))
                  => Correct')
      ]_vars

\* C5 witness: in the Incorrect state the text of the answer has been typed
\* (the retry is about to be checked).
C5_Witness ==
    /\ Incorrect
    /\ lastOp = "handleAnswerChange"
    /\ userAnswer = IntToStr(currentProblem.answer)

\* C6: right after nextProblem the session is Idle with a level-1 problem:
\* input empty, feedback hidden, hints collapsed, input and Check enabled,
\* whatever isCorrect is.
C6_NextProblemIsIdle ==
    lastOp = "nextProblem" =>
        /\ currentProblem \in Level1Problems
        /\ Idle
        /\ ~showHints
        /\ ~InputDisabled
        /\ ~CheckDisabled

\* C6 witness: nextProblem ran after a correct answer; isCorrect is still true.
C6_Witness == lastOp = "nextProblem" /\ isCorrect

C8_RejectedCheckChangesNothing ==
    [][ (lastOp' = "checkAnswer" /\ toast' \in {MissingAnswer, NotANumber}) =>
            /\ UNCHANGED <<currentProblem, userAnswer, isCorrect, showFeedback,
                           showHints>>
            /\ ~InputDisabled'
      ]_vars

\* C8 witness: a text that is not a number was rejected while the feedback of
\* an earlier check was showing.
C8_Witness ==
    /\ lastOp = "checkAnswer"
    /\ toast = NotANumber
    /\ Incorrect

\* C9: wherever Check is enabled, checkAnswer applied twice leaves the same
\* session as checkAnswer applied once.
C9_CheckAnswerIdempotent ==
    ~CheckDisabled =>
        LET once == checkAnswerOn(Session).session
        IN  checkAnswerOn(once).session = once

\* C9 witness: a check has given a verdict and Check is still enabled.
C9_Witness ==
    /\ lastOp = "checkAnswer"
    /\ toast = NotQuiteRight
    /\ ~CheckDisabled

\* C10 (as claimed): while feedback is visible the input text parses to a
\* number, and isCorrect holds exactly when that number is the answer.
C10_FeedbackAgreesWithInput ==
    showFeedback =>
        /\ ~parseInt(userAnswer).isNaN
        /\ isCorrect = (parseInt(userAnswer).value = currentProblem.answer)

=============================================================================
